---- MODULE Spec2Model ----
(***************************************************************************)
(* Code-review-assigner: teams, users, pull requests and reviewer          *)
(* assignments kept in a relational store, with the reviewer selection     *)
(* and reassignment policy of src/services.                                *)
(*                                                                         *)
(* The store is the four tables of src/models.  Every service operation    *)
(* is one action, executed to completion (sequential callers); in          *)
(* SpecSessions, SpecRaces and SpecTeamSteps the operations run statement  *)
(* by statement in two sessions, every CRUD call with its own commit.      *)
(* An Optional[T] value is the empty sequence (None) or a                  *)
(* one-element sequence.  The timestamps created_at and assigned_at are    *)
(* written once and never read by any operation; they are left out of the  *)
(* rows.                                                                   *)
(***************************************************************************)
EXTENDS Integers, Sequences, FiniteSets, TLC

\* ---------------------------------------------------------------- bounds
\* The clock advances with every call that commits to the store; at most
\* MaxClock such calls are followed.
MaxClock == 4
\* Longest member list of a create_team_with_members request.
MaxMembers == 4

\* ------------------------------------------------------------ input sets
TeamNames == {"t1", "t2"}
\* str ids as the request schemas accept them; "" is a valid str.
UserIds == {"", "u1", "u2", "u3"}
Usernames == {"n1", "n2"}
PRIds == {"p1", "p2"}
PRNames == {"a"}

None == << >>
Some(x) == << x >>

OPEN == "OPEN"
MERGED == "MERGED"

\* Error codes carried by the domain exceptions.
OK == "OK"
TEAM_EXISTS == "TEAM_EXISTS"
PR_EXISTS == "PR_EXISTS"
PR_MERGED == "PR_MERGED"
NOT_ASSIGNED == "NOT_ASSIGNED"
NO_CANDIDATE == "NO_CANDIDATE"
NOT_FOUND == "NOT_FOUND"

VARIABLES teams,  \* table teams: set of team_name
          users,  \* table users: user_id -> [username, team_name, is_active]
          pull_requests,  \* table pull_requests: pull_request_id -> row
          pr_reviewers,  \* table pr_reviewers: set of <<pull_request_id, reviewer_id>>
          now,  \* the wall clock
          last,  \* the last call: operation, arguments and outcome
          sessions  \* the reassign_reviewer requests in progress, by session

vars == << teams, users, pull_requests, pr_reviewers, now, last, sessions >>
store == << teams, users, pull_requests, pr_reviewers >>

\* ------------------------------------------------------------ crud layer
Min(a, b) == IF a < b THEN a ELSE b
Max(a, b) == IF a < b THEN b ELSE a

\* Python truthiness of an Optional[str]: None and "" are falsy.
Truthy(opt) == opt # None /\ opt[1] # ""

\* BaseCRUD.get on users / pull_requests: the row or None
user_get(us, user_id) ==
    IF user_id \in DOMAIN us THEN Some(us[user_id]) ELSE None

pr_get(prs, pull_request_id) ==
    IF pull_request_id \in DOMAIN prs THEN Some(prs[pull_request_id]) ELSE None

\* create_or_update that leaves an existing user in its team
create_or_update_keep_team(us, user_id, username, team_name, is_active) ==
    [u \in DOMAIN us \cup {user_id} |->
        IF u = user_id
        THEN [username |-> username,
              team_name |-> IF u \in DOMAIN us THEN us[u].team_name
                            ELSE team_name,
              is_active |-> is_active]
        ELSE us[u]]

\* UserCRUD.create_or_update: both branches leave the same row
create_or_update(us, user_id, username, team_name, is_active) ==
    [u \in DOMAIN us \cup {user_id} |->
        IF u = user_id
        THEN [username |-> username, team_name |-> team_name,
              is_active |-> is_active]
        ELSE us[u]]

\* set_active_status that writes the flag to every member of the user's team
set_active_status_team(us, user_id, is_active) ==
    [u \in DOMAIN us |->
        IF us[u].team_name = us[user_id].team_name
        THEN [us[u] EXCEPT !.is_active = is_active]
        ELSE us[u]]

\* UserCRUD.set_active_status: the table after the call (no row found, no
\* write)
set_active_status(us, user_id, is_active) ==
    IF user_get(us, user_id) # None
    THEN [us EXCEPT ![user_id].is_active = is_active]
    ELSE us

\* get_active_team_members without the is_active filter
get_active_team_members_any(us, team_name, exclude_user_id) ==
    {u \in DOMAIN us :
        /\ us[u].team_name = team_name
        /\ (Truthy(exclude_user_id) => u # exclude_user_id[1])}

\* UserCRUD.get_active_team_members: the ids of the rows returned
get_active_team_members(us, team_name, exclude_user_id) ==
    {u \in DOMAIN us :
        /\ us[u].team_name = team_name
        /\ us[u].is_active = TRUE
        /\ (Truthy(exclude_user_id) => u # exclude_user_id[1])}

\* create_team that adds no row
create_team_none(ts, team_name) == ts

\* TeamCRUD.create_team (the name is not yet in the table)
create_team(ts, team_name) == ts \cup {team_name}

\* PRReviewerCRUD.get_reviewer_ids
get_reviewer_ids(rows, pull_request_id) ==
    {r[2] : r \in {x \in rows : x[1] = pull_request_id}}

\* PRReviewerCRUD.is_assigned
is_assigned(rows, pull_request_id, reviewer_id) ==
    << pull_request_id, reviewer_id >> \in rows

\* PRReviewerCRUD.remove_reviewer
remove_reviewer(rows, pull_request_id, reviewer_id) ==
    rows \ {<< pull_request_id, reviewer_id >>}

\* PRReviewerCRUD.assign_reviewer (the pair is not yet in the table)
assign_reviewer(rows, pull_request_id, reviewer_id) ==
    rows \cup {<< pull_request_id, reviewer_id >>}

\* PullRequestCRUD.create_pr
create_pr(prs, pull_request_id, pull_request_name, author_id) ==
    [p \in DOMAIN prs \cup {pull_request_id} |->
        IF p = pull_request_id
        THEN [pull_request_name |-> pull_request_name,
              author_id |-> author_id,
              status |-> OPEN,
              merged_at |-> None]
        ELSE prs[p]]

\* get_prs_by_reviewer that lists the OPEN PRs only
get_prs_by_reviewer_open(prs, rows, reviewer_id) ==
    {p \in DOMAIN prs :
        /\ prs[p].status = OPEN
        /\ \E r \in rows : r[1] = p /\ r[2] = reviewer_id}

\* PullRequestCRUD.get_prs_by_reviewer: the ids of the pull_requests rows
\* joined to a pr_reviewers row of the reviewer
get_prs_by_reviewer(prs, rows, reviewer_id) ==
    {p \in DOMAIN prs : \E r \in rows : r[1] = p /\ r[2] = reviewer_id}

\* PullRequestShortSchema.model_validate
pr_short(prs, pull_request_id) ==
    [pull_request_id |-> pull_request_id,
     pull_request_name |-> prs[pull_request_id].pull_request_name,
     author_id |-> prs[pull_request_id].author_id,
     status |-> prs[pull_request_id].status]

\* merge_pr whose update is not filtered by the PR id
merge_pr_every(prs, pull_request_id, t) ==
    IF prs[pull_request_id].status # MERGED
    THEN [p \in DOMAIN prs |->
             IF prs[p].status # MERGED
             THEN [prs[p] EXCEPT !.status = MERGED, !.merged_at = Some(t)]
             ELSE prs[p]]
    ELSE prs

\* merge_pr that flips the status
merge_pr_toggle(prs, pull_request_id, t) ==
    IF prs[pull_request_id].status # MERGED
    THEN [prs EXCEPT ![pull_request_id].status = MERGED,
                     ![pull_request_id].merged_at = Some(t)]
    ELSE [prs EXCEPT ![pull_request_id].status = OPEN]

\* merge_pr without the idempotence check
merge_pr_always(prs, pull_request_id, t) ==
    [prs EXCEPT ![pull_request_id].status = MERGED,
                ![pull_request_id].merged_at = Some(t)]

\* PullRequestCRUD.merge_pr (the PR is known to exist)
merge_pr(prs, pull_request_id, t) ==
    IF prs[pull_request_id].status # MERGED
    THEN [prs EXCEPT ![pull_request_id].status = MERGED,
                     ![pull_request_id].merged_at = Some(t)]
    ELSE prs

\* --------------------------------------------------- assignment policy
\* select_reviewers that takes every candidate
select_reviewers_all(us, team_name, author_id, max_count) ==
    {get_active_team_members(us, team_name, Some(author_id))}

\* select_reviewers that always returns the same sample of the candidates
select_reviewers_fixed(us, team_name, author_id, max_count) ==
    LET candidates == get_active_team_members(us, team_name, Some(author_id))
    IN  IF candidates = {}
        THEN {{}}
        ELSE {CHOOSE S \in SUBSET candidates :
                Cardinality(S) = Min(Cardinality(candidates), max_count)}

\* ReviewerAssignmentService.select_reviewers: every outcome of
\* random.sample(candidates, min(len(candidates), max_count))
select_reviewers(us, team_name, author_id, max_count) ==
    LET candidates == get_active_team_members(us, team_name, Some(author_id))
    IN  IF candidates = {}
        THEN {{}}
        ELSE {S \in SUBSET candidates :
                Cardinality(S) = Min(Cardinality(candidates), max_count)}

\* ReviewerAssignmentService.assign_reviewers_to_pr
RECURSIVE assign_reviewers_to_pr(_, _, _)
assign_reviewers_to_pr(rows, pull_request_id, reviewer_ids) ==
    IF reviewer_ids = {}
    THEN rows
    ELSE LET r == CHOOSE x \in reviewer_ids : TRUE
         IN  assign_reviewers_to_pr(assign_reviewer(rows, pull_request_id, r),
                                    pull_request_id, reviewer_ids \ {r})

\* find_replacement_reviewer that searches the team of the PR's author
find_replacement_reviewer_author_team(us, rows, prs, old_reviewer_id, pull_request_id) ==
    IF user_get(us, old_reviewer_id) = None
    THEN {}
    ELSE LET current_reviewer_ids == get_reviewer_ids(rows, pull_request_id)
             candidates == get_active_team_members(
                 us, us[prs[pull_request_id].author_id].team_name, None)
             exclude_ids == {prs[pull_request_id].author_id}
                                \cup current_reviewer_ids
         IN  {c \in candidates : c \notin exclude_ids}

\* find_replacement_reviewer that searches the active users of every team
find_replacement_reviewer_any_team(us, rows, prs, old_reviewer_id, pull_request_id) ==
    IF user_get(us, old_reviewer_id) = None
    THEN {}
    ELSE LET current_reviewer_ids == get_reviewer_ids(rows, pull_request_id)
             candidates == {u \in DOMAIN us : us[u].is_active}
             exclude_ids == {prs[pull_request_id].author_id}
                                \cup current_reviewer_ids
         IN  {c \in candidates : c \notin exclude_ids}

\* find_replacement_reviewer that finds nobody for an inactive reviewer
find_replacement_reviewer_active_old(us, rows, prs, old_reviewer_id, pull_request_id) ==
    IF user_get(us, old_reviewer_id) = None \/ ~ us[old_reviewer_id].is_active
    THEN {}
    ELSE LET current_reviewer_ids == get_reviewer_ids(rows, pull_request_id)
             candidates == get_active_team_members(
                               us, us[old_reviewer_id].team_name, None)
             exclude_ids == {prs[pull_request_id].author_id}
                                \cup current_reviewer_ids
         IN  {c \in candidates : c \notin exclude_ids}

\* find_replacement_reviewer that does not exclude the PR's author
find_replacement_reviewer_keep_author(us, rows, prs, old_reviewer_id, pull_request_id) ==
    IF user_get(us, old_reviewer_id) = None
    THEN {}
    ELSE LET current_reviewer_ids == get_reviewer_ids(rows, pull_request_id)
             candidates == get_active_team_members(
                               us, us[old_reviewer_id].team_name, None)
         IN  {c \in candidates : c \notin current_reviewer_ids}

\* ReviewerAssignmentService.find_replacement_reviewer: the filtered pool
\* random.choice draws from; empty when NoCandidateException is raised
find_replacement_reviewer(us, rows, prs, old_reviewer_id, pull_request_id) ==
    IF user_get(us, old_reviewer_id) = None
    THEN {}
    ELSE LET current_reviewer_ids == get_reviewer_ids(rows, pull_request_id)
             candidates == get_active_team_members(
                               us, us[old_reviewer_id].team_name, None)
             exclude_ids == {prs[pull_request_id].author_id}
                                \cup current_reviewer_ids
         IN  {c \in candidates : c \notin exclude_ids}

\* reassign_reviewer that inserts the new row and keeps the old one
reassign_reviewer_keep_old(rows, pull_request_id, old_reviewer_id, new_reviewer_id) ==
    assign_reviewer(rows, pull_request_id, new_reviewer_id)

\* ReviewerAssignmentService.reassign_reviewer
reassign_reviewer(rows, pull_request_id, old_reviewer_id, new_reviewer_id) ==
    assign_reviewer(remove_reviewer(rows, pull_request_id, old_reviewer_id),
                    pull_request_id, new_reviewer_id)

\* reassign checks without the MERGED check
reassign_checks_no_merged(prs, rows, pull_request_id, old_reviewer_id) ==
    IF pr_get(prs, pull_request_id) = None
    THEN NOT_FOUND
    ELSE IF ~ is_assigned(rows, pull_request_id, old_reviewer_id)
    THEN NOT_ASSIGNED
    ELSE OK

\* reassign checks with the assignment check before the MERGED check
reassign_checks_assigned_first(prs, rows, pull_request_id, old_reviewer_id) ==
    IF pr_get(prs, pull_request_id) = None
    THEN NOT_FOUND
    ELSE IF ~ is_assigned(rows, pull_request_id, old_reviewer_id)
    THEN NOT_ASSIGNED
    ELSE IF prs[pull_request_id].status = MERGED
    THEN PR_MERGED
    ELSE OK

\* PullRequestService.reassign_reviewer, the checks before the selection:
\* the code of the exception raised, OK when none is
reassign_checks(prs, rows, pull_request_id, old_reviewer_id) ==
    IF pr_get(prs, pull_request_id) = None
    THEN NOT_FOUND
    ELSE IF prs[pull_request_id].status = MERGED
    THEN PR_MERGED
    ELSE IF ~ is_assigned(rows, pull_request_id, old_reviewer_id)
    THEN NOT_ASSIGNED
    ELSE OK

\* PullRequestService._build_pr_schema
build_pr_schema(prs, rows, pull_request_id) ==
    [pull_request_id |-> pull_request_id,
     pull_request_name |-> prs[pull_request_id].pull_request_name,
     author_id |-> prs[pull_request_id].author_id,
     status |-> prs[pull_request_id].status,
     assigned_reviewers |-> get_reviewer_ids(rows, pull_request_id),
     mergedAt |-> prs[pull_request_id].merged_at]

\* ---------------------------------------------------------------- calls
\* The record of a call: what was asked and what came back.
Call(op, team, user, pr, kind, ret, replaced_by) ==
    [op |-> op, team_name |-> team, user_id |-> user, pull_request_id |-> pr,
     kind |-> kind, pr_schema |-> ret, replaced_by |-> replaced_by,
     members |-> None, pull_requests |-> None]

\* A database session and the locals of the request it serves: nothing is
\* in progress at the start.
Sessions == {"s1", "s2"}

idle ==
    [pc |-> "idle", pull_request_id |-> None, old_reviewer_id |-> None,
     db_pr |-> None, old_reviewer |-> None, current_reviewer_ids |-> {},
     new_reviewer_id |-> None, assignment |-> FALSE, removed |-> FALSE,
     before |-> None, kind |-> None, pr_schema |-> None,
     op |-> None, author_id |-> None, author |-> None,
     reviewer_ids |-> None, assigned |-> {},
     team_name |-> None, members |-> None, created |-> FALSE,
     upserted |-> 0, db_user |-> None]

Init ==
    /\ teams = {}
    /\ users = << >>
    /\ pull_requests = << >>
    /\ pr_reviewers = {}
    /\ now = 0
    /\ last = Call("init", None, None, None, OK, None, None)
    /\ sessions = [s \in Sessions |-> idle]

\* Every commit happens at a later instant than the one before; a call that
\* raises before its first write leaves the store and the clock alone.
Tick == now < MaxClock /\ now' = now + 1

Fail(call) ==
    /\ UNCHANGED << teams, users, pull_requests, pr_reviewers, now, sessions >>
    /\ last' = call

\* TeamService.create_team_with_members
TeamMember == [user_id : UserIds, username : Usernames, is_active : BOOLEAN]

RECURSIVE upsert_members(_, _, _)
upsert_members(us, team_name, members) ==
    IF members = << >>
    THEN us
    ELSE upsert_members(
             create_or_update(us, Head(members).user_id, Head(members).username,
                              team_name, Head(members).is_active),
             team_name, Tail(members))

\* The member lists of the requests that are tried: up to MaxMembers members
\* in the order of UserOrder, one username and one is_active flag per request
UserOrder == << "", "u1", "u2", "u3" >>

Lists(names, flags, lengths) ==
    {LET ids == SelectSeq(UserOrder, LAMBDA u : u \in S)
     IN  [i \in 1..Len(ids) |->
             [user_id |-> ids[i], username |-> n, is_active |-> f]]
     : S \in {T \in SUBSET UserIds : Cardinality(T) \in lengths},
       n \in names, f \in flags}

MemberLists == Lists({"n1"}, BOOLEAN, 0..MaxMembers)
FullTeams == Lists({"n1"}, BOOLEAN, 3..MaxMembers)

\* create_team_with_members without the check of the team name
create_team_checks_none(ts, team_name) == OK

\* TeamService.create_team_with_members, the check before the first write
create_team_checks(ts, team_name) ==
    IF team_name \in ts THEN TEAM_EXISTS ELSE OK

\* (requests: the member lists the request is drawn from; the check of the
\* team name does not read the list)
CreateTeam(team_name, requests) ==
    IF create_team_checks(teams, team_name) # OK
    THEN Fail(Call("create_team", Some(team_name), None, None,
                   TEAM_EXISTS, None, None))
    ELSE \E members \in requests :
            /\ Tick
            /\ teams' = create_team(teams, team_name)
            /\ users' = upsert_members(users, team_name, members)
            /\ UNCHANGED << pull_requests, pr_reviewers, sessions >>
            /\ last' = Call("create_team", Some(team_name), None, None,
                            OK, None, None)

\* TeamService.create_team_with_members with the request kept in the call
\* record; a member list is any list of members, ids may repeat.  The
\* members tried are two ids with two profiles each.
MaxRequest == 2
RequestMember ==
    {m \in [user_id : {"u1", "u2"}, username : Usernames, is_active : BOOLEAN] :
        m.is_active <=> m.username = "n1"}
Requests == UNION {[1..n -> RequestMember] : n \in 0..MaxRequest}

CreateTeamRequest(team_name, members) ==
    LET call(kind) ==
            [Call("create_team", Some(team_name), None, None, kind, None, None)
                EXCEPT !.members = Some(members)]
    IN
    IF create_team_checks(teams, team_name) # OK
    THEN Fail(call(TEAM_EXISTS))
    ELSE /\ Tick
         /\ teams' = create_team(teams, team_name)
         /\ users' = upsert_members(users, team_name, members)
         /\ UNCHANGED << pull_requests, pr_reviewers, sessions >>
         /\ last' = call(OK)

\* set_user_active_status without the check of the user
set_user_active_checks_none(us, user_id) == OK

\* UserService.set_user_active_status: NotFoundException when
\* UserCRUD.set_active_status finds no row and returns None
set_user_active_checks(us, user_id) ==
    IF user_get(us, user_id) = None THEN NOT_FOUND ELSE OK

\* UserService.set_user_active_status
SetUserActive(user_id, is_active) ==
    IF set_user_active_checks(users, user_id) # OK
    THEN Fail(Call("set_user_active", None, Some(user_id), None,
                   NOT_FOUND, None, None))
    ELSE /\ Tick
         /\ users' = set_active_status(users, user_id, is_active)
         /\ UNCHANGED << teams, pull_requests, pr_reviewers, sessions >>
         /\ last' = Call("set_user_active", None, Some(user_id), None,
                         OK, None, None)

\* create_pr checks with the author looked up before the PR id
create_pr_checks_author_first(prs, us, pull_request_id, author_id) ==
    IF user_get(us, author_id) = None
    THEN NOT_FOUND
    ELSE IF pull_request_id \in DOMAIN prs
    THEN PR_EXISTS
    ELSE OK

\* PullRequestService.create_pr_with_reviewers, the checks before the first
\* write: the code of the exception raised, OK when none is
create_pr_checks(prs, us, pull_request_id, author_id) ==
    IF pull_request_id \in DOMAIN prs
    THEN PR_EXISTS
    ELSE IF user_get(us, author_id) = None
    THEN NOT_FOUND
    ELSE OK

\* PullRequestService.create_pr_with_reviewers
CreatePR(pull_request_id, pull_request_name, author_id) ==
    LET checked == create_pr_checks(pull_requests, users,
                                    pull_request_id, author_id)
    IN
    IF checked # OK
    THEN Fail(Call("create_pr", None, Some(author_id), Some(pull_request_id),
                   checked, None, None))
    ELSE \E reviewer_ids \in select_reviewers(
                 users, users[author_id].team_name, author_id, 2) :
            /\ Tick
            /\ pull_requests' = create_pr(pull_requests, pull_request_id,
                                          pull_request_name, author_id)
            /\ pr_reviewers' = assign_reviewers_to_pr(
                                   pr_reviewers, pull_request_id, reviewer_ids)
            /\ UNCHANGED << teams, users, sessions >>
            /\ last' = Call("create_pr", None, Some(author_id),
                            Some(pull_request_id), OK,
                            Some(build_pr_schema(pull_requests', pr_reviewers',
                                                 pull_request_id)), None)

\* PullRequestService.merge_pr
MergePR(pull_request_id) ==
    IF pr_get(pull_requests, pull_request_id) = None
    THEN Fail(Call("merge_pr", None, None, Some(pull_request_id),
                   NOT_FOUND, None, None))
    ELSE /\ IF pull_requests[pull_request_id].status # MERGED
            THEN Tick
            ELSE now' = now
         /\ pull_requests' = merge_pr(pull_requests, pull_request_id, now)
         /\ UNCHANGED << teams, users, pr_reviewers, sessions >>
         /\ last' = Call("merge_pr", None, None, Some(pull_request_id), OK,
                         Some(build_pr_schema(pull_requests', pr_reviewers,
                                              pull_request_id)), None)

\* PullRequestService.reassign_reviewer
ReassignReviewer(pull_request_id, old_reviewer_id) ==
    LET call(kind, ret, replaced_by) ==
            Call("reassign_reviewer", None, Some(old_reviewer_id),
                 Some(pull_request_id), kind, ret, replaced_by)
        checked == reassign_checks(pull_requests, pr_reviewers,
                                   pull_request_id, old_reviewer_id)
    IN
    IF checked # OK
    THEN Fail(call(checked, None, None))
    ELSE LET pool == find_replacement_reviewer(
                         users, pr_reviewers, pull_requests,
                         old_reviewer_id, pull_request_id)
         IN  IF pool = {}
             THEN Fail(call(NO_CANDIDATE, None, None))
             ELSE \E new_reviewer_id \in pool :
                     /\ Tick
                     /\ pr_reviewers' = reassign_reviewer(
                            pr_reviewers, pull_request_id,
                            old_reviewer_id, new_reviewer_id)
                     /\ UNCHANGED << teams, users, pull_requests, sessions >>
                     /\ last' = call(OK,
                                     Some(build_pr_schema(
                                         pull_requests, pr_reviewers',
                                         pull_request_id)),
                                     Some(new_reviewer_id))

\* ------------------------------------------- reassign_reviewer, by steps
\* A request runs in a session of its own (get_db) and the engine's default
\* isolation applies: every statement reads what is committed at that moment.
\* Each step is one statement (a query, or the flush and commit of one CRUD
\* call); steps of different sessions interleave.  No step reads the clock.
INTERNAL_ERROR == "INTERNAL_ERROR"
CRASHED == "CRASHED"

Step(s, fields) ==
    /\ sessions' = [sessions EXCEPT ![s] = fields @@ sessions[s]]
    /\ UNCHANGED << teams, users, pull_requests, now, last >>

\* the exception leaves the handler: the request is answered with its code
Raise(s, kind) ==
    /\ Step(s, [pc |-> "done", kind |-> Some(kind)])
    /\ UNCHANGED pr_reviewers

\* the request arrives (before: the number of reviewers the PR has then)
ReassignBegin(s, pull_request_id, old_reviewer_id) ==
    /\ sessions[s].pc = "idle"
    /\ Step(s, [pc |-> "get_by_id", op |-> Some("reassign_reviewer"),
                pull_request_id |-> Some(pull_request_id),
                old_reviewer_id |-> Some(old_reviewer_id),
                before |-> Some(Cardinality(
                              get_reviewer_ids(pr_reviewers, pull_request_id)))])
    /\ UNCHANGED pr_reviewers

\* pull_request_crud.get_by_id and the checks of the row read
ReassignGetById(s) ==
    /\ sessions[s].pc = "get_by_id"
    /\ LET db_pr == pr_get(pull_requests, sessions[s].pull_request_id[1])
       IN  IF db_pr = None THEN Raise(s, NOT_FOUND)
           ELSE IF db_pr[1].status = MERGED THEN Raise(s, PR_MERGED)
           ELSE /\ Step(s, [pc |-> "is_assigned", db_pr |-> db_pr])
                /\ UNCHANGED pr_reviewers

\* pr_reviewer_crud.is_assigned
ReassignIsAssigned(s) ==
    /\ sessions[s].pc = "is_assigned"
    /\ IF ~ is_assigned(pr_reviewers, sessions[s].pull_request_id[1],
                        sessions[s].old_reviewer_id[1])
       THEN Raise(s, NOT_ASSIGNED)
       ELSE /\ Step(s, [pc |-> "get_old_reviewer"])
            /\ UNCHANGED pr_reviewers

\* find_replacement_reviewer: user_crud.get_by_id of the old reviewer
FindGetOldReviewer(s) ==
    /\ sessions[s].pc = "get_old_reviewer"
    /\ LET old_reviewer == user_get(users, sessions[s].old_reviewer_id[1])
       IN  IF old_reviewer = None THEN Raise(s, NO_CANDIDATE)
           ELSE /\ Step(s, [pc |-> "get_reviewer_ids",
                            old_reviewer |-> old_reviewer])
                /\ UNCHANGED pr_reviewers

\* find_replacement_reviewer: pr_reviewer_crud.get_reviewer_ids
FindGetReviewerIds(s) ==
    /\ sessions[s].pc = "get_reviewer_ids"
    /\ Step(s, [pc |-> "get_active_team_members",
                current_reviewer_ids |->
                    get_reviewer_ids(pr_reviewers,
                                     sessions[s].pull_request_id[1])])
    /\ UNCHANGED pr_reviewers

\* find_replacement_reviewer: user_crud.get_active_team_members, the filter
\* and random.choice
FindChoose(s) ==
    /\ sessions[s].pc = "get_active_team_members"
    /\ LET candidates == get_active_team_members(
                             users, sessions[s].old_reviewer[1].team_name, None)
           exclude_ids == {sessions[s].db_pr[1].author_id}
                              \cup sessions[s].current_reviewer_ids
           available_candidates == {c \in candidates : c \notin exclude_ids}
       IN  IF available_candidates = {}
           THEN Raise(s, NO_CANDIDATE)
           ELSE \E new_reviewer_id \in available_candidates :
                   /\ Step(s, [pc |-> "remove_query",
                               new_reviewer_id |-> Some(new_reviewer_id)])
                   /\ UNCHANGED pr_reviewers

\* remove_reviewer: the query for the old row
RemoveQuery(s) ==
    /\ sessions[s].pc = "remove_query"
    /\ LET assignment == is_assigned(pr_reviewers,
                                     sessions[s].pull_request_id[1],
                                     sessions[s].old_reviewer_id[1])
       IN  Step(s, [pc |-> IF assignment THEN "remove_commit"
                           ELSE "assign_commit",
                    assignment |-> assignment])
    /\ UNCHANGED pr_reviewers

\* remove_reviewer: db.delete and db.commit.  When another session has
\* deleted the row since the query, the flush matches no row: the ORM warns
\* and goes on, or raises.
RemoveCommit(s) ==
    /\ sessions[s].pc = "remove_commit"
    /\ IF is_assigned(pr_reviewers, sessions[s].pull_request_id[1],
                      sessions[s].old_reviewer_id[1])
       THEN /\ pr_reviewers' = remove_reviewer(
                                   pr_reviewers, sessions[s].pull_request_id[1],
                                   sessions[s].old_reviewer_id[1])
            /\ Step(s, [pc |-> "assign_commit", removed |-> TRUE])
       ELSE \/ /\ Step(s, [pc |-> "assign_commit"])
               /\ UNCHANGED pr_reviewers
            \/ Raise(s, INTERNAL_ERROR)

\* assign_reviewer: db.add and db.commit; the composite primary key rejects a
\* pair that is in the table
AssignCommit(s) ==
    /\ sessions[s].pc = "assign_commit"
    /\ IF is_assigned(pr_reviewers, sessions[s].pull_request_id[1],
                      sessions[s].new_reviewer_id[1])
       THEN Raise(s, INTERNAL_ERROR)
       ELSE /\ pr_reviewers' = assign_reviewer(
                                   pr_reviewers, sessions[s].pull_request_id[1],
                                   sessions[s].new_reviewer_id[1])
            /\ Step(s, [pc |-> "respond"])

\* db.refresh, _build_pr_schema and the response
ReassignRespond(s) ==
    /\ sessions[s].pc = "respond"
    /\ Step(s, [pc |-> "done", kind |-> Some(OK),
                pr_schema |-> Some(build_pr_schema(
                                  pull_requests, pr_reviewers,
                                  sessions[s].pull_request_id[1]))])
    /\ UNCHANGED pr_reviewers

\* the process serving the request dies: what is committed stays
Crash(s) ==
    /\ sessions[s].pc \notin {"idle", "done"}
    /\ Raise(s, CRASHED)

\* The stores the requests start from: team t1 with every user id, any
\* flags, and the OPEN PR p1 of author u1 with up to two reviewers
InitSessions ==
    /\ teams = {"t1"}
    /\ \E active \in [UserIds -> BOOLEAN] :
          users = [u \in UserIds |->
                      [username |-> "n1", team_name |-> "t1",
                       is_active |-> active[u]]]
    /\ pull_requests = create_pr(<< >>, "p1", "a", "u1")
    /\ \E reviewer_ids \in SUBSET (UserIds \ {"u1"}) :
          /\ Cardinality(reviewer_ids) <= 2
          /\ pr_reviewers = assign_reviewers_to_pr({}, "p1", reviewer_ids)
    /\ now = MaxClock
    /\ last = Call("init", None, None, None, OK, None, None)
    /\ sessions = [s \in Sessions |-> idle]

\* Two sessions, each serving one reassign_reviewer request
NextSessions ==
    \E s \in Sessions :
        \/ \E p \in {"p1"}, u \in UserIds : ReassignBegin(s, p, u)
        \/ ReassignGetById(s)
        \/ ReassignIsAssigned(s)
        \/ FindGetOldReviewer(s)
        \/ FindGetReviewerIds(s)
        \/ FindChoose(s)
        \/ RemoveQuery(s)
        \/ RemoveCommit(s)
        \/ AssignCommit(s)
        \/ ReassignRespond(s)
        \/ Crash(s)

SpecSessions == InitSessions /\ [][NextSessions]_vars

\* ------------------------------------ create_pr and merge_pr, by steps
\* a step that also writes another table than pr_reviewers
Local(s, fields) == sessions' = [sessions EXCEPT ![s] = fields @@ sessions[s]]

\* the primary key of pull_requests rejects an insert with no conflict at all
pr_insert_conflicts_never(prs, pull_request_id) == FALSE

\* the primary key of pull_requests: the INSERT of create_pr raises
\* IntegrityError when the id is in the table
pr_insert_conflicts(prs, pull_request_id) == pull_request_id \in DOMAIN prs

\* the request arrives
CreateBegin(s, pull_request_id, author_id) ==
    /\ sessions[s].pc = "idle"
    /\ Step(s, [pc |-> "exists", op |-> Some("create_pr"),
                pull_request_id |-> Some(pull_request_id),
                author_id |-> Some(author_id)])
    /\ UNCHANGED pr_reviewers

\* pull_request_crud.exists
CreateExists(s) ==
    /\ sessions[s].pc = "exists"
    /\ IF sessions[s].pull_request_id[1] \in DOMAIN pull_requests
       THEN Raise(s, PR_EXISTS)
       ELSE /\ Step(s, [pc |-> "get_author"])
            /\ UNCHANGED pr_reviewers

\* user_crud.get_by_id of the author
CreateGetAuthor(s) ==
    /\ sessions[s].pc = "get_author"
    /\ LET author == user_get(users, sessions[s].author_id[1])
       IN  IF author = None THEN Raise(s, NOT_FOUND)
           ELSE /\ Step(s, [pc |-> "create_pr", author |-> author])
                /\ UNCHANGED pr_reviewers

\* pull_request_crud.create_pr: db.add and db.commit
CreateInsert(s) ==
    /\ sessions[s].pc = "create_pr"
    /\ IF pr_insert_conflicts(pull_requests, sessions[s].pull_request_id[1])
       THEN Raise(s, INTERNAL_ERROR)
       ELSE /\ pull_requests' = create_pr(pull_requests,
                                          sessions[s].pull_request_id[1], "a",
                                          sessions[s].author_id[1])
            /\ Local(s, [pc |-> "select_reviewers", created |-> TRUE])
            /\ UNCHANGED << teams, users, pr_reviewers, now, last >>

\* select_reviewers: the commit has expired the author row, author.team_name
\* is read again; then get_active_team_members and random.sample
CreateSelect(s) ==
    /\ sessions[s].pc = "select_reviewers"
    /\ \E reviewer_ids \in select_reviewers(
              users, users[sessions[s].author_id[1]].team_name,
              sessions[s].author_id[1], 2) :
          Step(s, [pc |-> "assign_reviewers",
                   reviewer_ids |-> Some(reviewer_ids)])
    /\ UNCHANGED pr_reviewers

\* assign_reviewers_to_pr: one pass of the loop, assign_reviewer with its
\* db.add and db.commit
CreateAssign(s) ==
    /\ sessions[s].pc = "assign_reviewers"
    /\ \E reviewer_id \in sessions[s].reviewer_ids[1] \ sessions[s].assigned :
          IF is_assigned(pr_reviewers, sessions[s].pull_request_id[1],
                         reviewer_id)
          THEN Raise(s, INTERNAL_ERROR)
          ELSE /\ pr_reviewers' = assign_reviewer(
                                      pr_reviewers,
                                      sessions[s].pull_request_id[1],
                                      reviewer_id)
               /\ Step(s, [assigned |-> sessions[s].assigned
                                           \cup {reviewer_id}])

\* the loop is over: db.refresh, _build_pr_schema and the response
CreateRespond(s) ==
    /\ sessions[s].pc = "assign_reviewers"
    /\ sessions[s].reviewer_ids[1] = sessions[s].assigned
    /\ Step(s, [pc |-> "done", kind |-> Some(OK),
                pr_schema |-> Some(build_pr_schema(
                                  pull_requests, pr_reviewers,
                                  sessions[s].pull_request_id[1]))])
    /\ UNCHANGED pr_reviewers

\* the request arrives
MergeBegin(s, pull_request_id) ==
    /\ sessions[s].pc = "idle"
    /\ Step(s, [pc |-> "merge_get", op |-> Some("merge_pr"),
                pull_request_id |-> Some(pull_request_id)])
    /\ UNCHANGED pr_reviewers

\* PullRequestCRUD.merge_pr: get_by_id, the check of the status read and the
\* two assignments; datetime.now is read here and is later at every reading
MergeGet(s) ==
    /\ sessions[s].pc = "merge_get"
    /\ LET db_pr == pr_get(pull_requests, sessions[s].pull_request_id[1])
       IN  IF db_pr = None
           THEN Raise(s, NOT_FOUND)
           ELSE IF db_pr[1].status # MERGED
           THEN /\ Tick
                /\ Local(s, [pc |-> "merge_commit",
                             db_pr |-> Some([db_pr[1] EXCEPT
                                               !.status = MERGED,
                                               !.merged_at = Some(now)])])
                /\ UNCHANGED << teams, users, pull_requests, pr_reviewers,
                                last >>
           ELSE /\ Step(s, [pc |-> "merge_respond", db_pr |-> db_pr])
                /\ UNCHANGED pr_reviewers

\* The UPDATE the commit of merge_pr emits: status and merged_at, the two
\* columns assigned, where pull_request_id is the one of the row loaded
flush_merge(prs, pull_request_id, db_pr) ==
    [prs EXCEPT ![pull_request_id].status = db_pr.status,
                ![pull_request_id].merged_at = db_pr.merged_at]

\* PullRequestCRUD.merge_pr: db.commit
MergeCommit(s) ==
    /\ sessions[s].pc = "merge_commit"
    /\ pull_requests' = flush_merge(pull_requests,
                                    sessions[s].pull_request_id[1],
                                    sessions[s].db_pr[1])
    /\ Local(s, [pc |-> "merge_respond"])
    /\ UNCHANGED << teams, users, pr_reviewers, now, last >>

\* db.refresh, _build_pr_schema and the response
MergeRespond(s) ==
    /\ sessions[s].pc = "merge_respond"
    /\ Step(s, [pc |-> "done", kind |-> Some(OK),
                pr_schema |-> Some(build_pr_schema(
                                  pull_requests, pr_reviewers,
                                  sessions[s].pull_request_id[1]))])
    /\ UNCHANGED pr_reviewers

\* The stores the requests start from: team t1 with every user id, all
\* active, and either no PR or the OPEN PR p1 of author u1 with the two
\* reviewers a create_pr selected
InitRaces ==
    /\ teams = {"t1"}
    /\ users = [u \in UserIds |->
                   [username |-> "n1", team_name |-> "t1", is_active |-> TRUE]]
    /\ \/ /\ pull_requests = << >>
          /\ pr_reviewers = {}
       \/ /\ pull_requests = create_pr(<< >>, "p1", "a", "u1")
          /\ \E reviewer_ids \in select_reviewers(users, "t1", "u1", 2) :
                pr_reviewers = assign_reviewers_to_pr({}, "p1", reviewer_ids)
    /\ now = 0
    /\ last = Call("init", None, None, None, OK, None, None)
    /\ sessions = [s \in Sessions |-> idle]

\* Two sessions, each serving one create_pr, merge_pr or reassign_reviewer
\* request on the PR p1
NextRaces ==
    \E s \in Sessions :
        \/ \E a \in {"u1", "u2", "u9"} : CreateBegin(s, "p1", a)
        \/ CreateExists(s)
        \/ CreateGetAuthor(s)
        \/ CreateInsert(s)
        \/ CreateSelect(s)
        \/ CreateAssign(s)
        \/ CreateRespond(s)
        \/ MergeBegin(s, "p1")
        \/ MergeGet(s)
        \/ MergeCommit(s)
        \/ MergeRespond(s)
        \/ \E u \in {"u2", "u3"} : ReassignBegin(s, "p1", u)
        \/ ReassignGetById(s)
        \/ ReassignIsAssigned(s)
        \/ FindGetOldReviewer(s)
        \/ FindGetReviewerIds(s)
        \/ FindChoose(s)
        \/ RemoveQuery(s)
        \/ RemoveCommit(s)
        \/ AssignCommit(s)
        \/ ReassignRespond(s)
        \/ Crash(s)

SpecRaces == InitRaces /\ [][NextRaces]_vars

\* ------------------------------------- create_team_with_members, by steps
\* the request arrives
TeamBegin(s, team_name, members) ==
    /\ sessions[s].pc = "idle"
    /\ Step(s, [pc |-> "team_exists", op |-> Some("create_team"),
                team_name |-> Some(team_name), members |-> Some(members)])
    /\ UNCHANGED pr_reviewers

\* team_crud.exists
TeamExists(s) ==
    /\ sessions[s].pc = "team_exists"
    /\ IF create_team_checks(teams, sessions[s].team_name[1]) # OK
       THEN Raise(s, TEAM_EXISTS)
       ELSE /\ Step(s, [pc |-> "create_team"])
            /\ UNCHANGED pr_reviewers

\* team_crud.create_team: db.add and db.commit; team_name is the primary key
TeamInsert(s) ==
    /\ sessions[s].pc = "create_team"
    /\ IF sessions[s].team_name[1] \in teams
       THEN Raise(s, INTERNAL_ERROR)
       ELSE /\ teams' = create_team(teams, sessions[s].team_name[1])
            /\ Local(s, [pc |-> "upsert_get", created |-> TRUE])
            /\ UNCHANGED << users, pull_requests, pr_reviewers, now, last >>

\* create_or_update of the next member: user_crud.get_by_id
UpsertGet(s) ==
    /\ sessions[s].pc = "upsert_get"
    /\ sessions[s].upserted < Len(sessions[s].members[1])
    /\ LET member == sessions[s].members[1][sessions[s].upserted + 1]
       IN  Step(s, [pc |-> "upsert_commit",
                    db_user |-> user_get(users, member.user_id)])
    /\ UNCHANGED pr_reviewers

\* The UPDATE the unit of work emits for a loaded row: the columns whose
\* assigned value differs from the value loaded
update_user(us, user_id, loaded, username, team_name, is_active) ==
    [us EXCEPT ![user_id] =
        [username |-> IF username # loaded.username THEN username
                      ELSE @.username,
         team_name |-> IF team_name # loaded.team_name THEN team_name
                       ELSE @.team_name,
         is_active |-> IF is_active # loaded.is_active THEN is_active
                       ELSE @.is_active]]

\* create_or_update of the next member: the assignments or db.add, and
\* db.commit; user_id is the primary key
UpsertCommit(s) ==
    /\ sessions[s].pc = "upsert_commit"
    /\ LET member == sessions[s].members[1][sessions[s].upserted + 1]
           db_user == sessions[s].db_user
       IN  IF db_user = None /\ member.user_id \in DOMAIN users
           THEN Raise(s, INTERNAL_ERROR)
           ELSE /\ users' = IF db_user = None
                            THEN create_or_update(
                                     users, member.user_id, member.username,
                                     sessions[s].team_name[1], member.is_active)
                            ELSE update_user(
                                     users, member.user_id, db_user[1],
                                     member.username, sessions[s].team_name[1],
                                     member.is_active)
                /\ Local(s, [pc |-> "upsert_get", db_user |-> None,
                             upserted |-> sessions[s].upserted + 1])
                /\ UNCHANGED << teams, pull_requests, pr_reviewers, now, last >>

\* the loop is over: db.refresh and the response
TeamRespond(s) ==
    /\ sessions[s].pc = "upsert_get"
    /\ sessions[s].upserted = Len(sessions[s].members[1])
    /\ Step(s, [pc |-> "done", kind |-> Some(OK)])
    /\ UNCHANGED pr_reviewers

\* Two sessions, each serving one create_team_with_members request
NextTeamSteps ==
    \E s \in Sessions :
        \/ \E t \in TeamNames, ms \in Requests : TeamBegin(s, t, ms)
        \/ TeamExists(s)
        \/ TeamInsert(s)
        \/ UpsertGet(s)
        \/ UpsertCommit(s)
        \/ TeamRespond(s)
        \/ Crash(s)

SpecTeamSteps == Init /\ [][NextTeamSteps]_vars

\* ------------------------------------------- get_active_team_members
\* UserCRUD.get_active_team_members called on its own: the ids of the rows
\* returned are kept in the call record (exclude_user_id: None or Some(id))
GetActiveTeamMembers(team_name, exclude_user_id) ==
    /\ UNCHANGED << teams, users, pull_requests, pr_reviewers, now, sessions >>
    /\ last' = [Call("get_active_team_members", Some(team_name),
                     exclude_user_id, None, OK, None, None)
                   EXCEPT !.members =
                       Some(get_active_team_members(users, team_name,
                                                    exclude_user_id))]

\* The users tables the query is tried on: every user id in one of the two
\* teams, under any flags
InitMembers ==
    /\ teams = TeamNames
    /\ users \in [UserIds -> [username : {"n1"}, team_name : TeamNames,
                              is_active : BOOLEAN]]
    /\ pull_requests = << >>
    /\ pr_reviewers = {}
    /\ now = 0
    /\ last = Call("init", None, None, None, OK, None, None)
    /\ sessions = [s \in Sessions |-> idle]

NextMembers ==
    \E t \in TeamNames, x \in {None} \cup {Some(u) : u \in UserIds} :
        GetActiveTeamMembers(t, x)

SpecMembers == InitMembers /\ [][NextMembers]_vars

\* PullRequestService.get_user_reviews
GetUserReviews(user_id) ==
    /\ UNCHANGED << teams, users, pull_requests, pr_reviewers, now, sessions >>
    /\ last' = [Call("get_user_reviews", None, Some(user_id), None, OK,
                     None, None)
                   EXCEPT !.pull_requests =
                       Some({pr_short(pull_requests, p) :
                               p \in get_prs_by_reviewer(
                                         pull_requests, pr_reviewers, user_id)})]

\* Two teams, one pull request
Next ==
    \/ \E t \in TeamNames : CreateTeam(t, MemberLists)
    \/ \E u \in UserIds, a \in BOOLEAN : SetUserActive(u, a)
    \/ \E n \in PRNames, a \in UserIds : CreatePR("p1", n, a)
    \/ MergePR("p1")
    \/ \E u \in UserIds : ReassignReviewer("p1", u)

Spec == Init /\ [][Next]_vars

\* One team of three or four, two pull requests
NextPRs ==
    \/ CreateTeam("t1", FullTeams)
    \/ \E u \in UserIds, a \in BOOLEAN : SetUserActive(u, a)
    \/ \E p \in PRIds, n \in PRNames, a \in UserIds : CreatePR(p, n, a)
    \/ \E p \in PRIds : MergePR(p)
    \/ \E p \in PRIds, u \in UserIds : ReassignReviewer(p, u)

SpecPRs == Init /\ [][NextPRs]_vars

\* One team of three or four, two pull requests, and the reviews of a user
NextReviews ==
    \/ CreateTeam("t1", FullTeams)
    \/ \E p \in PRIds, n \in PRNames, a \in UserIds : CreatePR(p, n, a)
    \/ \E p \in PRIds : MergePR(p)
    \/ \E p \in PRIds, u \in UserIds : ReassignReviewer(p, u)
    \/ \E u \in UserIds : GetUserReviews(u)

SpecReviews == Init /\ [][NextReviews]_vars

\* Two teams with free member lists, one pull request
NextTeams ==
    \/ \E t \in TeamNames, ms \in Requests : CreateTeamRequest(t, ms)
    \/ \E n \in PRNames, a \in UserIds : CreatePR("p1", n, a)

SpecTeams == Init /\ [][NextTeams]_vars

\* Two teams, one pull request of author u1, users are deactivated only
NextMoves ==
    \/ \E t \in TeamNames : CreateTeam(t, MemberLists)
    \/ \E u \in UserIds : SetUserActive(u, FALSE)
    \/ \E n \in PRNames : CreatePR("p1", n, "u1")
    \/ MergePR("p1")
    \/ \E u \in UserIds : ReassignReviewer("p1", u)

SpecMoves == Init /\ [][NextMoves]_vars

\* ------------------------------------------------------------ properties
reviewers(p) == get_reviewer_ids(pr_reviewers, p)

\* The step is a call (any step that is not a repetition of the same raising
\* call writes its own record to last, or commits).
IsCall(op) == last'.op = op /\ << last', now' >> # << last, now >>
Committed(op) == last'.op = op /\ last'.kind = OK /\ now' = now + 1

\* The users the policy may select for a PR of author_id's team, as the
\* contract words it: active members of team_name other than the excluded.
Eligible(team_name, excluded) ==
    {u \in DOMAIN users :
        /\ users[u].team_name = team_name
        /\ users[u].is_active
        /\ u \notin excluded}

\* C1: no PR has its own author among its assigned reviewers.
C1_AuthorNeverReviewer ==
    \A p \in DOMAIN pull_requests :
        pull_requests[p].author_id \notin reviewers(p)

\* C2: every PR has at most 2 reviewer-assignment rows.
C2_AtMostTwoReviewers ==
    \A p \in DOMAIN pull_requests : Cardinality(reviewers(p)) <= 2

\* a PR holds two reviewers after a reassignment, with a third active
\* teammate of the author left out
C2_Witness ==
    /\ last.op = "reassign_reviewer" /\ last.kind = OK
    /\ \E p \in DOMAIN pull_requests :
          /\ Cardinality(reviewers(p)) = 2
          /\ Cardinality(Eligible(users[pull_requests[p].author_id].team_name,
                                  {pull_requests[p].author_id})) > 2

\* C3: once a PR is MERGED no step adds or removes one of its assignment
\* rows, and every reassign_reviewer call on it fails with PR_MERGED.
C3_MergedFrozen ==
    [][\A p \in DOMAIN pull_requests :
          pull_requests[p].status = MERGED =>
              /\ get_reviewer_ids(pr_reviewers', p) = reviewers(p)
              /\ (IsCall("reassign_reviewer")
                     /\ last'.pull_request_id = Some(p)
                  => last'.kind = PR_MERGED)]_vars

\* a reassignment of an assigned reviewer of a merged PR was refused although
\* a replacement was available, and a second PR exists
C3_Witness ==
    /\ last.op = "reassign_reviewer" /\ last.kind = PR_MERGED
    /\ is_assigned(pr_reviewers, last.pull_request_id[1], last.user_id[1])
    /\ find_replacement_reviewer(users, pr_reviewers, pull_requests,
                                 last.user_id[1], last.pull_request_id[1]) # {}
    /\ Cardinality(DOMAIN pull_requests) = 2

\* C4: a PR is OPEN when created, no PR is ever deleted, and a MERGED PR is
\* MERGED after every step.
C4_StatusOneWay ==
    [][\A p \in PRIds :
          /\ (p \notin DOMAIN pull_requests /\ p \in DOMAIN pull_requests'
                 => pull_requests'[p].status = OPEN)
          /\ (p \in DOMAIN pull_requests
                 => /\ p \in DOMAIN pull_requests'
                    /\ pull_requests'[p].status \in {OPEN, MERGED}
                    /\ (pull_requests[p].status = MERGED
                           => pull_requests'[p].status = MERGED))]_vars

\* a PR is still MERGED after another PR was created next to it
C4_Witness ==
    /\ last.op = "create_pr" /\ last.kind = OK
    /\ \E p \in DOMAIN pull_requests :
          /\ p # last.pull_request_id[1]
          /\ pull_requests[p].status = MERGED

\* C5: merge_pr on a MERGED PR succeeds, returns status MERGED with the
\* merged_at stored by the first merge and leaves the store unchanged; no step
\* overwrites a stored merged_at.
C5_MergeIdempotent ==
    [][\A p \in DOMAIN pull_requests :
          pull_requests[p].status = MERGED =>
              /\ pull_requests[p].merged_at # None
              /\ pull_requests'[p].merged_at = pull_requests[p].merged_at
              /\ (IsCall("merge_pr") /\ last'.pull_request_id = Some(p)
                  => /\ last'.kind = OK
                     /\ last'.pr_schema[1].status = MERGED
                     /\ last'.pr_schema[1].mergedAt = pull_requests[p].merged_at
                     /\ store' = store)]_vars

\* the last call merged a PR again that was merged at least two commits ago
C5_Witness ==
    /\ last.op = "merge_pr" /\ last.kind = OK
    /\ LET p == last.pull_request_id[1]
       IN  /\ pull_requests[p].merged_at # None
           /\ pull_requests[p].merged_at[1] + 1 < now
           /\ last.pr_schema[1].mergedAt = pull_requests[p].merged_at

\* C6: a successful create_pr for author a leaves the PR OPEN with exactly
\* min(|C|, 2) reviewers, all in C = the active members of a's team other
\* than a.
C6_CreateAssignsFromTeam ==
    (last.op = "create_pr" /\ last.kind = OK) =>
        LET p == last.pull_request_id[1]
            a == last.user_id[1]
            C == Eligible(users[a].team_name, {a})
        IN  /\ pull_requests[p].status = OPEN
            /\ last.pr_schema[1].assigned_reviewers = reviewers(p)
            /\ reviewers(p) \subseteq C
            /\ Cardinality(reviewers(p)) = Min(Cardinality(C), 2)

\* C7: no step adds an assignment row for a user who is inactive.
C7_InactiveNeverSelected ==
    [][\A p \in PRIds, u \in UserIds :
          (<< p, u >> \in pr_reviewers' /\ << p, u >> \notin pr_reviewers)
              => /\ u \in DOMAIN users
                 /\ users[u].is_active
                 /\ users'[u].is_active]_vars

\* a PR was created or reassigned while an inactive teammate of its author
\* was passed over: a reviewer slot (or the replacement) went to someone else
\* or stayed empty
C7_Witness ==
    /\ last.op \in {"create_pr", "reassign_reviewer"} /\ last.kind = OK
    /\ LET p == last.pull_request_id[1]
           a == pull_requests[p].author_id
       IN  /\ Cardinality(reviewers(p)) < 2
           /\ \E u \in DOMAIN users :
                 /\ u # a
                 /\ users[u].team_name = users[a].team_name
                 /\ ~ users[u].is_active
                 /\ u \notin reviewers(p)

\* C8: when reassign_reviewer(pr, old) succeeds, replaced_by is an active
\* member of old's team, is not the PR's author, is not old and was not
\* assigned to the PR before the call.
C8_ReplacementEligible ==
    [][Committed("reassign_reviewer") =>
          LET p == last'.pull_request_id[1]
              old == last'.user_id[1]
              new == last'.replaced_by[1]
          IN  /\ new \in DOMAIN users
              /\ users[new].is_active
              /\ users[new].team_name = users[old].team_name
              /\ new # pull_requests[p].author_id
              /\ new # old
              /\ new \notin reviewers(p)
              /\ new \in get_reviewer_ids(pr_reviewers', p)]_vars

\* a reviewer who sits in another team than the PR's author was replaced
C8_Witness ==
    /\ last.op = "reassign_reviewer" /\ last.kind = OK
    /\ LET p == last.pull_request_id[1]
       IN  /\ users[last.replaced_by[1]].team_name
                 # users[pull_requests[p].author_id].team_name
           /\ users[last.replaced_by[1]].team_name
                 = users[last.user_id[1]].team_name

\* The error kind the contract gives reassign_reviewer(p, old): the first
\* failing check in the order NotFound, PRMerged, NotAssigned, NoCandidate.
ExpectedReassignKind(p, old) ==
    IF p \notin DOMAIN pull_requests THEN NOT_FOUND
    ELSE IF pull_requests[p].status = MERGED THEN PR_MERGED
    ELSE IF old \notin reviewers(p) THEN NOT_ASSIGNED
    ELSE IF Eligible(users[old].team_name,
                     {pull_requests[p].author_id} \cup reviewers(p)) = {}
         THEN NO_CANDIDATE
    ELSE OK

C10_NoCandidateIff ==
    [][IsCall("reassign_reviewer") =>
          LET p == last'.pull_request_id[1]
              old == last'.user_id[1]
          IN  /\ (/\ p \in DOMAIN pull_requests
                  /\ pull_requests[p].status = OPEN
                  /\ old \in reviewers(p))
                 => (last'.kind = NO_CANDIDATE
                        <=> Eligible(users[old].team_name,
                                     {pull_requests[p].author_id}
                                         \cup reviewers(p)) = {})
              /\ last'.kind # OK
                 => /\ store' = store
                    /\ (old \in reviewers(p)
                           => old \in get_reviewer_ids(pr_reviewers', p))]_vars

\* NO_CANDIDATE was raised although the reviewer's team has an active member:
\* the PR's author, who is excluded
C10_Witness ==
    /\ last.op = "reassign_reviewer" /\ last.kind = NO_CANDIDATE
    /\ LET p == last.pull_request_id[1]
           old == last.user_id[1]
       IN  /\ old \in reviewers(p)
           /\ pull_requests[p].author_id
                 \in Eligible(users[old].team_name, reviewers(p))

\* C11: a successful reassign_reviewer(pr, old) leaves the PR with its former
\* reviewers, old removed and replaced_by added; no step changes the number
\* of reviewers of an existing PR.
C11_ReassignSwapsOne ==
    [][/\ \A p \in DOMAIN pull_requests :
             Cardinality(get_reviewer_ids(pr_reviewers', p))
                 = Cardinality(reviewers(p))
       /\ Committed("reassign_reviewer") =>
             LET p == last'.pull_request_id[1]
                 old == last'.user_id[1]
                 new == last'.replaced_by[1]
             IN  /\ old \in reviewers(p)
                 /\ new \notin reviewers(p)
                 /\ get_reviewer_ids(pr_reviewers', p)
                        = (reviewers(p) \ {old}) \cup {new}
                 /\ last'.pr_schema[1].assigned_reviewers
                        = get_reviewer_ids(pr_reviewers', p)]_vars

\* the only reviewer of a PR was replaced while another active teammate of
\* the author, eligible at a creation, stays unassigned
C11_Witness ==
    /\ last.op = "reassign_reviewer" /\ last.kind = OK
    /\ LET p == last.pull_request_id[1]
           a == pull_requests[p].author_id
       IN  /\ reviewers(p) = {last.replaced_by[1]}
           /\ Eligible(users[a].team_name, {a} \cup reviewers(p)) # {}

\* C12: create_pr fails with PR_EXISTS when the PR id exists, also when the
\* author is unknown, and otherwise with NOT_FOUND when the author is
\* unknown; a failing create_pr leaves every table as it was.
C12_CreateErrors ==
    [][IsCall("create_pr") =>
          LET p == last'.pull_request_id[1]
              a == last'.user_id[1]
          IN  /\ p \in DOMAIN pull_requests => last'.kind = PR_EXISTS
              /\ (p \notin DOMAIN pull_requests /\ a \notin DOMAIN users)
                     => last'.kind = NOT_FOUND
              /\ (p \notin DOMAIN pull_requests /\ a \in DOMAIN users)
                     => last'.kind = OK
              /\ last'.kind # OK
                     => /\ store' = store
                        /\ (p \in DOMAIN pull_requests
                               => /\ pull_requests'[p] = pull_requests[p]
                                  /\ get_reviewer_ids(pr_reviewers', p)
                                         = reviewers(p))]_vars

\* PR_EXISTS was raised for an unknown author, on a PR that has reviewers
C12_Witness ==
    /\ last.op = "create_pr" /\ last.kind = PR_EXISTS
    /\ last.user_id[1] \notin DOMAIN users
    /\ reviewers(last.pull_request_id[1]) # {}

\* C13: create_team_with_members fails with TEAM_EXISTS exactly when the
\* team name is taken, and then every table is as before: no listed member
\* is created, moved, renamed or has its is_active flag changed.
C13_TeamExistsFrame ==
    [][IsCall("create_team") =>
          LET t == last'.team_name[1]
              ms == last'.members[1]
          IN  /\ t \in teams <=> last'.kind = TEAM_EXISTS
              /\ last'.kind = TEAM_EXISTS
                     => /\ store' = store
                        /\ \A i \in 1..Len(ms) :
                              user_get(users', ms[i].user_id)
                                  = user_get(users, ms[i].user_id)]_vars

\* TEAM_EXISTS was raised for a request that lists an unknown user and a
\* user of another team under another flag
C13_Witness ==
    /\ last.op = "create_team" /\ last.kind = TEAM_EXISTS
    /\ LET t == last.team_name[1]
           ms == last.members[1]
       IN  /\ \E i \in 1..Len(ms) : ms[i].user_id \notin DOMAIN users
           /\ \E i \in 1..Len(ms) :
                 /\ ms[i].user_id \in DOMAIN users
                 /\ users[ms[i].user_id].team_name # t
                 /\ users[ms[i].user_id].is_active # ms[i].is_active

\* The entry of a member list that is upserted last for user id u.
LastEntry(ms, u) ==
    ms[CHOOSE i \in 1..Len(ms) :
           /\ ms[i].user_id = u
           /\ \A j \in (i+1)..Len(ms) : ms[j].user_id # u]

\* C14 as claimed: after a successful create_team_with_members(T, members)
\* every listed entry's user is in T with that entry's username and flag,
\* and every user is in one existing team.
C14_MembersAsListed ==
    /\ \A u \in DOMAIN users : users[u].team_name \in teams
    /\ (last.op = "create_team" /\ last.kind = OK /\ last.members # None) =>
          LET t == last.team_name[1]
              ms == last.members[1]
          IN  \A i \in 1..Len(ms) :
                 /\ ms[i].user_id \in DOMAIN users
                 /\ users[ms[i].user_id]
                       = [username |-> ms[i].username, team_name |-> t,
                          is_active |-> ms[i].is_active]

\* C14 amended: after a successful create_team_with_members(T, members)
\* every listed user id is in T, and in no other team, with the username and
\* flag of its last entry in the list; every user is in one existing team.
C14_MembersAsLastListed ==
    /\ \A u \in DOMAIN users : users[u].team_name \in teams
    /\ (last.op = "create_team" /\ last.kind = OK /\ last.members # None) =>
          LET t == last.team_name[1]
              ms == last.members[1]
          IN  /\ t \in teams
              /\ \A i \in 1..Len(ms) :
                    LET u == ms[i].user_id
                    IN  /\ u \in DOMAIN users
                        /\ users[u]
                              = [username |-> LastEntry(ms, u).username,
                                 team_name |-> t,
                                 is_active |-> LastEntry(ms, u).is_active]
              /\ {u \in DOMAIN users : users[u].team_name = t}
                    = {ms[i].user_id : i \in 1..Len(ms)}

\* the second team was created with a list that names one id twice under
\* different flags, and the first team has no member
C14_Witness ==
    /\ last.op = "create_team" /\ last.kind = OK /\ last.members # None
    /\ teams = TeamNames
    /\ DOMAIN users # {}
    /\ \A u \in DOMAIN users : users[u].team_name = last.team_name[1]
    /\ LET ms == last.members[1]
       IN  /\ Len(ms) = 2
           /\ ms[1].user_id = ms[2].user_id
           /\ ms[1].is_active # ms[2].is_active

\* C15: a successful set_user_active(u, flag) changes nothing but the
\* is_active flag of u: u keeps its team and username, every other user,
\* every PR and every assignment row, those of u included, is as before.
C15_SetActiveFrame ==
    [][Committed("set_user_active") =>
          LET u == last'.user_id[1]
          IN  /\ u \in DOMAIN users
              /\ DOMAIN users' = DOMAIN users
              /\ users'[u].team_name = users[u].team_name
              /\ users'[u].username = users[u].username
              /\ \A v \in DOMAIN users \ {u} : users'[v] = users[v]
              /\ teams' = teams
              /\ pull_requests' = pull_requests
              /\ pr_reviewers' = pr_reviewers]_vars

\* a reviewer of an OPEN PR was deactivated and is still assigned, next to
\* an active teammate
C15_Witness ==
    /\ last.op = "set_user_active" /\ last.kind = OK
    /\ LET u == last.user_id[1]
       IN  /\ ~ users[u].is_active
           /\ \E p \in DOMAIN pull_requests :
                 /\ pull_requests[p].status = OPEN
                 /\ u \in reviewers(p)
           /\ \E v \in DOMAIN users \ {u} :
                 /\ users[v].team_name = users[u].team_name
                 /\ users[v].is_active

\* C16: set_user_active fails with NOT_FOUND exactly when the user id is not
\* in the users table, and then no user is created and nothing is changed.
C16_SetActiveNotFound ==
    [][IsCall("set_user_active") =>
          LET u == last'.user_id[1]
          IN  /\ u \notin DOMAIN users <=> last'.kind = NOT_FOUND
              /\ last'.kind \in {OK, NOT_FOUND}
              /\ last'.kind = NOT_FOUND
                    => /\ store' = store
                       /\ u \notin DOMAIN users']_vars

\* NOT_FOUND was raised for an unknown user while other users exist
C16_Witness ==
    /\ last.op = "set_user_active" /\ last.kind = NOT_FOUND
    /\ last.user_id[1] \notin DOMAIN users
    /\ DOMAIN users # {}

\* C17: merge_pr fails with NOT_FOUND exactly when the PR id does not exist
\* and then changes nothing; a successful merge_pr leaves the PR MERGED and
\* changes nothing but its status and merged_at.
C17_MergeFrame ==
    [][IsCall("merge_pr") =>
          LET p == last'.pull_request_id[1]
          IN  /\ p \notin DOMAIN pull_requests <=> last'.kind = NOT_FOUND
              /\ last'.kind \in {OK, NOT_FOUND}
              /\ last'.kind = NOT_FOUND => store' = store
              /\ last'.kind = OK
                    => /\ DOMAIN pull_requests' = DOMAIN pull_requests
                       /\ pull_requests'[p].status = MERGED
                       /\ pull_requests'[p].merged_at # None
                       /\ pull_requests'[p].pull_request_name
                              = pull_requests[p].pull_request_name
                       /\ pull_requests'[p].author_id
                              = pull_requests[p].author_id
                       /\ \A q \in DOMAIN pull_requests \ {p} :
                              pull_requests'[q] = pull_requests[q]
                       /\ pr_reviewers' = pr_reviewers
                       /\ users' = users
                       /\ teams' = teams]_vars

\* a PR with reviewers was merged by the last commit while another PR is OPEN
C17_Witness ==
    /\ last.op = "merge_pr" /\ last.kind = OK
    /\ LET p == last.pull_request_id[1]
       IN  /\ pull_requests[p].merged_at = Some(now - 1)
           /\ reviewers(p) # {}
           /\ \E q \in DOMAIN pull_requests \ {p} :
                 pull_requests[q].status = OPEN

\* C18: get_user_reviews(u) succeeds for every id, changes nothing and
\* returns the PRs, OPEN or MERGED, that have an assignment row with
\* reviewer u, with their current name, author and status; nothing for an
\* id that is not a user; and after a successful reassign_reviewer the query
\* of the replaced reviewer no longer finds the PR and that of the new one
\* does.
C18_ReviewsAreAssignments ==
    [][/\ IsCall("get_user_reviews") =>
             LET u == last'.user_id[1]
                 listed == last'.pull_requests[1]
             IN  /\ last'.kind = OK
                 /\ store' = store /\ now' = now
                 /\ {s.pull_request_id : s \in listed}
                       = {p \in DOMAIN pull_requests : u \in reviewers(p)}
                 /\ \A s \in listed :
                       LET row == pull_requests[s.pull_request_id]
                       IN  /\ s.status = row.status
                           /\ s.author_id = row.author_id
                           /\ s.pull_request_name = row.pull_request_name
                 /\ u \notin DOMAIN users => listed = {}
       /\ Committed("reassign_reviewer") =>
             LET p == last'.pull_request_id[1]
             IN  /\ p \notin get_prs_by_reviewer(pull_requests', pr_reviewers',
                                                  last'.user_id[1])
                 /\ p \in get_prs_by_reviewer(pull_requests', pr_reviewers',
                                               last'.replaced_by[1])]_vars

\* the reviews of a user list an OPEN and a MERGED PR
C18_Witness ==
    /\ last.op = "get_user_reviews"
    /\ last.user_id[1] \in DOMAIN users
    /\ {s.status : s \in last.pull_requests[1]} = {OPEN, MERGED}

\* C19: the delete of the old row and the insert of the replacement's row
\* are one unit: in no state, a request in progress, crashed or failed
\* included, has a request's delete been committed without its insert.
C19_ReassignAtomic ==
    \A s \in Sessions :
        sessions[s].removed
            => \/ sessions[s].pc = "respond"
               \/ sessions[s].kind = Some(OK)

\* C20: of two reassign_reviewer requests for the same PR and the same old
\* reviewer at most one succeeds, and when both are over the PR has no more
\* reviewers than before the first of them.
C20_OneReassignWins ==
    \A s, t \in Sessions :
        (/\ s # t
         /\ sessions[s].pc = "done" /\ sessions[t].pc = "done"
         /\ sessions[s].pull_request_id = sessions[t].pull_request_id
         /\ sessions[s].old_reviewer_id = sessions[t].old_reviewer_id)
            => /\ ~ (sessions[s].kind = Some(OK) /\ sessions[t].kind = Some(OK))
               /\ Cardinality(reviewers(sessions[s].pull_request_id[1]))
                     <= Max(sessions[s].before[1], sessions[t].before[1])

\* C21: of two concurrent create_pr requests with the same PR id at most one
\* inserts the PR and at most one succeeds; one row with that id exists
\* afterwards, it is the row of the request that inserted it, and only that
\* request assigns reviewers: after its success the PR's reviewers are the
\* ones it selected.
C21_OneCreateWins ==
    \A s, t \in Sessions :
        (/\ s # t
         /\ sessions[s].op = Some("create_pr")
         /\ sessions[t].op = Some("create_pr")
         /\ sessions[s].pull_request_id = sessions[t].pull_request_id)
            => LET p == sessions[s].pull_request_id[1]
               IN  /\ ~ (sessions[s].created /\ sessions[t].created)
                   /\ ~ (sessions[s].kind = Some(OK)
                            /\ sessions[t].kind = Some(OK))
                   /\ ~ sessions[s].created => sessions[s].assigned = {}
                   /\ sessions[s].created
                         => /\ p \in DOMAIN pull_requests
                            /\ pull_requests[p].author_id
                                   = sessions[s].author_id[1]
                            /\ reviewers(p) = sessions[s].assigned
                   /\ sessions[s].kind = Some(OK)
                         => /\ sessions[s].created
                            /\ reviewers(p) = sessions[s].reviewer_ids[1]
                            /\ sessions[s].pr_schema[1].assigned_reviewers
                                   = sessions[s].reviewer_ids[1]

\* two create_pr requests of different authors passed the existence check;
\* one inserted the PR and succeeded with its two reviewers, the other lost
\* at the insert
C21_Witness ==
    \E s, t \in Sessions :
        /\ sessions[s].op = Some("create_pr")
        /\ sessions[t].op = Some("create_pr")
        /\ sessions[s].author_id # sessions[t].author_id
        /\ sessions[s].kind = Some(OK)
        /\ Cardinality(reviewers(sessions[s].pull_request_id[1])) = 2
        /\ sessions[t].kind = Some(INTERNAL_ERROR)
        /\ sessions[t].author # None

\* C22: under every interleaving of create_pr, merge_pr and
\* reassign_reviewer requests no step inserts or deletes an assignment row
\* of a PR whose stored status is MERGED when the step writes.
C22_ChecksValidAtWrite ==
    [][\A p \in DOMAIN pull_requests :
          pull_requests[p].status = MERGED
              => get_reviewer_ids(pr_reviewers', p) = reviewers(p)]_vars

\* C23: the team and the member upserts of one create_team_with_members
\* request are one unit: in every state in which a request's team is in the
\* store, a state during the request or after its interruption included,
\* every listed user is a user of that team (or of the team of another
\* request that lists it too).
C23_TeamAtomic ==
    \A s \in Sessions :
        (sessions[s].op = Some("create_team") /\ sessions[s].created)
            => \A i \in 1..Len(sessions[s].members[1]) :
                  LET u == sessions[s].members[1][i].user_id
                  IN  /\ u \in DOMAIN users
                      /\ \/ users[u].team_name = sessions[s].team_name[1]
                         \/ \E t \in Sessions \ {s} :
                               /\ sessions[t].op = Some("create_team")
                               /\ sessions[t].created
                               /\ users[u].team_name = sessions[t].team_name[1]
                               /\ \E j \in 1..Len(sessions[t].members[1]) :
                                     sessions[t].members[1][j].user_id = u

\* The codes of the domain failures of services/exceptions.py.
TypedFailures ==
    {TEAM_EXISTS, PR_EXISTS, NOT_FOUND, PR_MERGED, NOT_ASSIGNED, NO_CANDIDATE}

\* C24: every request that is answered ends in success or in one of the
\* typed domain failures, a writer that loses a race on a key included, and
\* no request succeeds past a store step that failed: a successful
\* reassign_reviewer has deleted the old row.
C24_TypedFailuresOnly ==
    \A s \in Sessions :
        (sessions[s].pc = "done" /\ sessions[s].kind # Some(CRASHED))
            => /\ sessions[s].kind[1] \in {OK} \cup TypedFailures
               /\ (sessions[s].op = Some("reassign_reviewer")
                      /\ sessions[s].kind = Some(OK))
                  => sessions[s].removed

\* C25: merged_at is written once: it is unset exactly while the PR is OPEN,
\* and no step, a step of one of two concurrent merge_pr requests included,
\* changes a merged_at that is set.
C25_MergedAtOnce ==
    [][\A p \in DOMAIN pull_requests :
          /\ pull_requests[p].merged_at = None
                <=> pull_requests[p].status = OPEN
          /\ pull_requests'[p].merged_at = None
                <=> pull_requests'[p].status = OPEN
          /\ pull_requests[p].merged_at # None
                => pull_requests'[p].merged_at
                       = pull_requests[p].merged_at]_vars

\* C26: active_team_members(team, exclude = x) returns exactly the active
\* users of the team whose id is not x, for every user id x, the empty
\* string included; without exclude, all active users of the team.
C26_ExcludeExact ==
    last.op = "get_active_team_members" =>
        last.members[1]
            = Eligible(last.team_name[1],
                       IF last.user_id = None THEN {} ELSE {last.user_id[1]})

\* Every row refers to rows that exist.
RefIntegrity ==
    /\ \A r \in pr_reviewers :
          r[1] \in DOMAIN pull_requests /\ r[2] \in DOMAIN users
    /\ \A p \in DOMAIN pull_requests :
          pull_requests[p].author_id \in DOMAIN users
    /\ \A u \in DOMAIN users : users[u].team_name \in teams

\* C27: after every step every assignment row refers to an existing PR and
\* an existing user, every PR's author is a user and every user's team_name
\* is a team; no step deletes a team, a user or a PR.
C27_ReferentialIntegrity ==
    [][/\ RefIntegrity'
       /\ teams \subseteq teams'
       /\ DOMAIN users \subseteq DOMAIN users'
       /\ DOMAIN pull_requests \subseteq DOMAIN pull_requests']_vars

\* a reviewer of an OPEN PR was moved by a later create_team_with_members
\* into a team that is not the author's, and the first team is left with
\* members
C27_Witness ==
    /\ last.op = "create_team" /\ last.kind = OK
    /\ teams = TeamNames
    /\ \E p \in DOMAIN pull_requests :
          \E u \in reviewers(p) :
             /\ users[u].team_name # users[pull_requests[p].author_id].team_name
             /\ users[u].team_name = last.team_name[1]

\* C28: a create_team_with_members that moves users leaves every assignment
\* row in place, and reassign_reviewer(pr, old) of an assigned reviewer of an
\* OPEN PR succeeds exactly when the team stored for old at that time has an
\* active member outside the author and the reviewers; replaced_by is a
\* member of that team, whichever team the author is in.
C28_PoolFollowsReviewerTeam ==
    [][/\ Committed("create_team") => pr_reviewers' = pr_reviewers
       /\ IsCall("reassign_reviewer") =>
             LET p == last'.pull_request_id[1]
                 old == last'.user_id[1]
             IN  (/\ p \in DOMAIN pull_requests
                  /\ pull_requests[p].status = OPEN
                  /\ old \in reviewers(p))
                 => /\ last'.kind = OK
                          <=> Eligible(users[old].team_name,
                                       {pull_requests[p].author_id}
                                           \cup reviewers(p)) # {}
                    /\ last'.kind = OK
                          => /\ users[last'.replaced_by[1]].team_name
                                    = users[old].team_name
                             /\ last'.replaced_by[1]
                                    \in get_reviewer_ids(pr_reviewers', p)]_vars

\* a reviewer who was moved to the second team after the PR was created was
\* replaced by a member of that team: the PR has a reviewer of the author's
\* team and one of the other team
C28_Witness ==
    /\ last.op = "reassign_reviewer" /\ last.kind = OK
    /\ teams = TeamNames
    /\ LET p == last.pull_request_id[1]
           author_team == users[pull_requests[p].author_id].team_name
       IN  /\ users[last.user_id[1]].team_name # author_team
           /\ users[last.replaced_by[1]].team_name # author_team
           /\ last.replaced_by[1] \in reviewers(p)
           /\ \E u \in reviewers(p) : users[u].team_name = author_team

\* C29: reassign_reviewer(pr, old), for an OPEN PR whose assigned reviewer
\* old is inactive, succeeds whenever old's team has an active member outside
\* the author and the reviewers, and old is then no longer a reviewer of the
\* PR.
C29_InactiveOldReassigned ==
    [][IsCall("reassign_reviewer") =>
          LET p == last'.pull_request_id[1]
              old == last'.user_id[1]
          IN  (/\ p \in DOMAIN pull_requests
               /\ pull_requests[p].status = OPEN
               /\ old \in reviewers(p)
               /\ ~ users[old].is_active
               /\ Eligible(users[old].team_name,
                           {pull_requests[p].author_id} \cup reviewers(p)) # {})
              => /\ last'.kind = OK
                 /\ old \notin get_reviewer_ids(pr_reviewers', p)
                 /\ last'.replaced_by[1] \in get_reviewer_ids(pr_reviewers', p)
                 /\ ~ users'[old].is_active]_vars

\* a reviewer who was deactivated after the assignment was replaced by an
\* active teammate and is off the PR
C29_Witness ==
    /\ last.op = "reassign_reviewer" /\ last.kind = OK
    /\ LET p == last.pull_request_id[1]
           old == last.user_id[1]
       IN  /\ ~ users[old].is_active
           /\ old \notin reviewers(p)
           /\ users[last.replaced_by[1]].is_active
           /\ last.replaced_by[1] \in reviewers(p)

\* The kinds the next call of an operation can end with in this state.
CreateKinds(p, a) ==
    {k \in {OK} \cup TypedFailures :
        ENABLED (CreatePR(p, "a", a) /\ last'.kind = k)}

ReassignKinds(p, old) ==
    {k \in {OK} \cup TypedFailures :
        ENABLED (ReassignReviewer(p, old) /\ last'.kind = k)}

\* C30: in every state, while calls are followed, a create_pr whose candidate
\* set has more than 2 members can assign every 2-element subset of it, a
\* reassign_reviewer whose filtered pool has more than one member can return
\* every member as replaced_by, and the kind a create_pr or reassign_reviewer
\* call ends with is fixed by the state and the arguments.
C30_SelectionOpen ==
    now < MaxClock =>
        /\ \A a \in DOMAIN users :
              LET C == Eligible(users[a].team_name, {a})
              IN  ("p1" \notin DOMAIN pull_requests /\ Cardinality(C) > 2)
                  => \A S \in {T \in SUBSET C : Cardinality(T) = 2} :
                        ENABLED (/\ CreatePR("p1", "a", a)
                                 /\ last'.kind = OK
                                 /\ get_reviewer_ids(pr_reviewers', "p1") = S)
        /\ \A old \in UserIds :
              ExpectedReassignKind("p1", old) = OK
                  => LET pool == Eligible(users[old].team_name,
                                          {pull_requests["p1"].author_id}
                                              \cup reviewers("p1"))
                     IN  \A c \in pool :
                            ENABLED (/\ ReassignReviewer("p1", old)
                                     /\ last'.replaced_by = Some(c))
        /\ \A a \in UserIds : Cardinality(CreateKinds("p1", a)) = 1
        /\ \A old \in UserIds : Cardinality(ReassignKinds("p1", old)) = 1

\* a reassign_reviewer with two users in the pool took one of them: an
\* active user of the old reviewer's team, not the author and not a
\* reviewer, is left out
C30_Witness ==
    /\ last.op = "reassign_reviewer" /\ last.kind = OK
    /\ LET p == last.pull_request_id[1]
       IN  /\ users[last.replaced_by[1]].team_name
                  = users[last.user_id[1]].team_name
           /\ Eligible(users[last.user_id[1]].team_name,
                       {pull_requests[p].author_id, last.user_id[1]}
                           \cup reviewers(p)) # {}

====
